---- MODULE Spec2Model ----
(***************************************************************************)
(* Status aggregation and degradation of the trading dashboard             *)
(* (src/web_server.py, class DashboardHandler).                            *)
(*                                                                         *)
(* The state is the set of external artifacts a request reads (credential  *)
(* file, ticker file, trade ledger, first-trade marker), the per-process   *)
(* string-hash seed, and the result of the last request.  One action per   *)
(* request handler: GET /api/status (get_bot_status_json) and GET /        *)
(* (generate_dashboard_html).  The outcome of every broker call of a       *)
(* request is an input of the action.                                      *)
(*                                                                         *)
(* Money: account amounts are whole dollars, ticker prices are cents.      *)
(* Two fields of the model are not stored by the code and only record      *)
(* which branch ran: `resolved` of a quote (the live fetch branch produced *)
(* the price) and `calls` (the external operations in the order made).     *)
(***************************************************************************)
EXTENDS Integers, Sequences, FiniteSets, TLC

VARIABLES auth, tickersFile, ledger, marker, hseed, out, runs

vars == <<auth, tickersFile, ledger, marker, hseed, out, runs>>

env == <<auth, tickersFile, ledger, marker, hseed>>

\* ---------------------------------------------------------------- bounds
\* rows of the ledger file, tokens of the ticker file
MaxRows == 11
MaxSyms == 5
\* a ticker file of more than SliceSyms tokens is combined with ledgers of at
\* most SliceRows rows only (ticker resolution and the ledger read share no data)
SliceSyms == 2
SliceRows == 1
\* the files of the requests that are repeated
RepeatSyms == 3
RepeatRows == 2

\* ------------------------------------------------------- program constants
UNNAMED_COLUMN == "Unnamed: 0"
StatusTickerCap == 3
DashTickerCap == 4
StatusTail == 5
DashTail == 10
HistoryShown == 5
DemoCash == 25000
DemoPortfolioValue == 25000
DemoBuyingPower == 50000
FallbackPrice == 10000
HashModulus == 50

\* ---------------------------------------------------------------- helpers
Min(a, b) == IF a < b THEN a ELSE b

Range(s) == {s[i] : i \in 1..Len(s)}

\* s[:k]
Take(s, k) == SubSeq(s, 1, Min(k, Len(s)))

\* s[-k:]
Last(s, k) == SubSeq(s, Len(s) - Min(k, Len(s)) + 1, Len(s))

BoundedSeq(S, n) == UNION {[1..k -> S] : k \in 0..n}

\* ------------------------------------------------------------ environment
AuthStates == {"absent", "unparsable", "nokey", "valid"}

\* tokens a ticker file may hold, and str.upper() on them
FileTokens == {"tsla", "NVDA"}

Upper(tok) ==
  CASE tok = "tsla" -> "TSLA"
    [] tok = "aapl" -> "AAPL"
    [] tok = "nvda" -> "NVDA"
    [] OTHER -> tok

\* headers of the ledger file; "" is an unlabeled header cell
HeaderPlain == <<"Time", "Type", "Ticker", "Total">>
HeaderIndexed == <<"">> \o HeaderPlain
HeaderDrift == <<"Time", "Side", "Ticker", "Total">>
HeaderDriftIndexed == <<"">> \o HeaderDrift
Headers == {HeaderPlain, HeaderIndexed, HeaderDrift, HeaderDriftIndexed}

HashSeeds == {0, 7}

\* the value the ledger file holds in row r under the header cell h
Cell(h, r) ==
  CASE h = "" -> r - 1
    [] h = "Time" -> 1000 + r
    [] h \in {"Type", "Side"} -> IF r % 2 = 1 THEN "buy" ELSE "sell"
    [] h = "Ticker" -> IF r % 3 = 0 THEN "NVDA" ELSE "TSLA"
    [] OTHER -> 100 * r

\* what the broker reports
LiveAccount == [cash |-> 31000, portfolio_value |-> 64000, buying_power |-> 62000]
LivePositions == 2
LiveClockOpen == FALSE
LivePrice(sym) ==
  CASE sym = "TSLA" -> 25011
    [] sym = "NVDA" -> 48250
    [] OTHER -> 10101

\* ------------------------------------------------------- ticker resolution
Quote(sym, price, resolved) == [symbol |-> sym, price |-> price, resolved |-> resolved]

demo_prices == [AAPL |-> 17525, TSLA |-> 24580, AMZN |-> 13590, MA |-> 42560]

\* dict.get(key, default)
DictGet(d, key, default) == IF key \in DOMAIN d THEN d[key] ELSE default

\* hash(ticker) % 50: fixed for the life of the process, different per process
SymCode(sym) ==
  CASE sym = "AAPL" -> 1
    [] sym = "TSLA" -> 2
    [] sym = "AMZN" -> 3
    [] sym = "MA" -> 4
    [] OTHER -> 5

HashMod(sym, seed) == (seed * SymCode(sym)) % HashModulus

\* one pass of the loop body of get_ticker_data; ok is the outcome of
\* api.get_latest_trade(ticker) when the call is made
TickerQuoteOf(api, ticker, demo_mode, ok, seed) ==
  IF demo_mode \/ api = "None"
  THEN Quote(ticker, DictGet(demo_prices, ticker, 10000 + 100 * HashMod(ticker, seed)), FALSE)
  ELSE IF ok
       THEN Quote(ticker, LivePrice(ticker), TRUE)
       ELSE Quote(ticker, DictGet(demo_prices, ticker, FallbackPrice), FALSE)

\* get_ticker_data with the try around the whole loop: the first failed fetch
\* ends the loop
get_ticker_data_outer_try(api, tickers, demo_mode, fetchOk, seed) ==
  LET prefix == Take(tickers, DashTickerCap)
      live == ~(demo_mode \/ api = "None")
      bad == {i \in 1..Len(prefix) : live /\ ~fetchOk[i]}
      n == IF bad = {} THEN Len(prefix) ELSE (CHOOSE i \in bad : \A j \in bad : i <= j) - 1
  IN [i \in 1..n |-> TickerQuoteOf(api, prefix[i], demo_mode, fetchOk[i], seed)]

\* get_ticker_data with the slice of the status handler
get_ticker_data_cap3(api, tickers, demo_mode, fetchOk, seed) ==
  LET prefix == Take(tickers, StatusTickerCap)
  IN [i \in 1..Len(prefix) |-> TickerQuoteOf(api, prefix[i], demo_mode, fetchOk[i], seed)]

get_ticker_data(api, tickers, demo_mode, fetchOk, seed) ==
  LET prefix == Take(tickers, DashTickerCap)
  IN [i \in 1..Len(prefix) |-> TickerQuoteOf(api, prefix[i], demo_mode, fetchOk[i], seed)]

\* the broker calls get_ticker_data makes, in order
TickerCalls(api, tickers, demo_mode, fetchOk, cap) ==
  LET prefix == Take(tickers, cap)
  IN IF demo_mode \/ api = "None"
     THEN <<>>
     ELSE [i \in 1..Len(prefix) |-> [op |-> "getLatestTrade", arg |-> prefix[i], ok |-> fetchOk[i]]]

\* ticker_prices[ticker] = value on a dict kept in insertion order
DictPut(d, q) ==
  IF \E i \in 1..Len(d) : d[i].symbol = q.symbol
  THEN [i \in 1..Len(d) |-> IF d[i].symbol = q.symbol THEN q ELSE d[i]]
  ELSE Append(d, q)

\* the ticker loop of get_bot_status_json (lines 119-125)
RECURSIVE StatusTickerLoop(_, _, _, _)
StatusTickerLoop(prefix, fetchOk, i, d) ==
  IF i > Len(prefix)
  THEN d
  ELSE StatusTickerLoop(prefix, fetchOk, i + 1,
         DictPut(d, IF fetchOk[i]
                    THEN Quote(prefix[i], LivePrice(prefix[i]), TRUE)
                    ELSE Quote(prefix[i], 0, FALSE)))

status_ticker_prices(tickers, fetchOk) ==
  StatusTickerLoop(Take(tickers, StatusTickerCap), fetchOk, 1, <<>>)

\* the literals of the DEMO and the error payload of get_bot_status_json
StatusDemoTickers ==
  <<Quote("AAPL", 17525, FALSE), Quote("TSLA", 24580, FALSE),
    Quote("AMZN", 13590, FALSE), Quote("MA", 42560, FALSE)>>

StatusErrorTickers == <<Quote("AAPL", 17525, FALSE), Quote("TSLA", 24580, FALSE)>>

\* f.read().upper().split() on the ticker file
read_tickers(tf) == [i \in 1..Len(tf.tokens) |-> Upper(tf.tokens[i])]

\* ------------------------------------------------------------ trade ledger
\* the name pandas gives the column at 0-based position p with a blank header
UnnamedName(p) ==
  CASE p = 0 -> "Unnamed: 0"
    [] p = 1 -> "Unnamed: 1"
    [] p = 2 -> "Unnamed: 2"
    [] p = 3 -> "Unnamed: 3"
    [] OTHER -> "Unnamed: 4"

\* pd.read_csv: a frame of named columns and rows, or a raised error
read_csv(l) ==
  IF l.state = "malformed"
  THEN [raised |-> TRUE, columns |-> <<>>, rows |-> <<>>]
  ELSE LET cols == [i \in 1..Len(l.header) |->
                      IF l.header[i] = "" THEN UnnamedName(i - 1) ELSE l.header[i]]
       IN [raised |-> FALSE,
           columns |-> cols,
           rows |-> [r \in 1..l.n |-> [i \in 1..Len(cols) |-> Cell(l.header[i], r)]]]

\* df.drop(columns=[name])
RECURSIVE DropAt(_, _)
DropAt(s, name) ==
  IF s.columns = <<>>
  THEN s
  ELSE LET rest == DropAt([columns |-> Tail(s.columns), rows |-> [r \in 1..Len(s.rows) |-> Tail(s.rows[r])]], name)
       IN IF Head(s.columns) = name
          THEN rest
          ELSE [columns |-> <<Head(s.columns)>> \o rest.columns,
                rows |-> [r \in 1..Len(s.rows) |-> <<Head(s.rows[r])>> \o rest.rows[r]]]

\* a drop that leaves the frame as it was
drop_nothing(df, name) == df

drop_column(df, name) ==
  LET d == DropAt([columns |-> df.columns, rows |-> df.rows], name)
  IN [raised |-> df.raised, columns |-> d.columns, rows |-> d.rows]

\* df.head(k).to_dict('records')
head_records(df, k) ==
  LET rows == Take(df.rows, k)
  IN [r \in 1..Len(rows) |->
       [c \in Range(df.columns) |-> rows[r][CHOOSE i \in 1..Len(df.columns) : df.columns[i] = c]]]

\* df.tail(k).to_dict('records')
tail_records(df, k) ==
  LET rows == Last(df.rows, k)
  IN [r \in 1..Len(rows) |->
       [c \in Range(df.columns) |-> rows[r][CHOOSE i \in 1..Len(df.columns) : df.columns[i] = c]]]

\* get_dashboard_trading_history without its try/except
get_dashboard_trading_history_no_try(l) ==
  IF l.state = "missing"
  THEN [raised |-> FALSE, trades |-> <<>>]
  ELSE LET df0 == read_csv(l)
       IN IF df0.raised
          THEN [raised |-> TRUE, trades |-> <<>>]
          ELSE LET df == IF UNNAMED_COLUMN \in Range(df0.columns)
                         THEN drop_column(df0, UNNAMED_COLUMN)
                         ELSE df0
               IN [raised |-> FALSE, trades |-> tail_records(df, DashTail)]

\* the rows collected in a list that outlives the request
get_dashboard_trading_history_kept(l) ==
  IF l.state = "ok"
  THEN [raised |-> FALSE,
        trades |-> out.trades \o tail_records(drop_column(read_csv(l), UNNAMED_COLUMN), DashTail)]
  ELSE [raised |-> FALSE, trades |-> out.trades]

\* get_dashboard_trading_history (lines 273-284); raised says an exception
\* left the function, which its own try/except never lets happen
get_dashboard_trading_history(l) ==
  IF l.state = "missing"
  THEN [raised |-> FALSE, trades |-> <<>>]
  ELSE LET df0 == read_csv(l)
       IN IF df0.raised
          THEN [raised |-> FALSE, trades |-> <<>>]
          ELSE LET df == IF UNNAMED_COLUMN \in Range(df0.columns)
                         THEN drop_column(df0, UNNAMED_COLUMN)
                         ELSE df0
               IN [raised |-> FALSE, trades |-> tail_records(df, DashTail)]

\* the trading-history block of get_bot_status_json (lines 128-138)
status_trading_history(l) ==
  IF l.state = "missing"
  THEN [raised |-> FALSE, trades |-> <<>>, trades_count |-> 0]
  ELSE LET df0 == read_csv(l)
       IN IF df0.raised
          THEN [raised |-> FALSE, trades |-> <<>>, trades_count |-> 0]
          ELSE LET df == IF UNNAMED_COLUMN \in Range(df0.columns)
                         THEN drop_column(df0, UNNAMED_COLUMN)
                         ELSE df0
               IN [raised |-> FALSE, trades |-> tail_records(df, StatusTail),
                   trades_count |-> Len(df.rows)]

\* ------------------------------------------------------------- the results
Call(op, arg, ok) == [op |-> op, arg |-> arg, ok |-> ok]

DemoAccount == [cash |-> DemoCash, portfolio_value |-> DemoPortfolioValue, buying_power |-> DemoBuyingPower]

NoAccount == [cash |-> 0, portfolio_value |-> 0, buying_power |-> 0]

\* what a handler hands back; keys names the parts the result really holds,
\* raised says an exception left the handler instead
Blank ==
  [endpoint |-> "none", raised |-> FALSE, page |-> "none", keys |-> {},
   mode |-> "none", status |-> "none", error |-> "none", demo_mode |-> FALSE,
   market_open |-> FALSE, account |-> NoAccount, positions_count |-> 0,
   tickers |-> <<>>, trades |-> <<>>, total_trades |-> 0,
   first_trade_made |-> FALSE, bot_mode |-> "none", calls |-> <<>>]

Raise(endpoint, msg, calls) ==
  [Blank EXCEPT !.endpoint = endpoint, !.raised = TRUE, !.error = msg, !.calls = calls]

\* os.path.exists(AUTH_FILE) and os.path.exists(TICKERS_FILE)
ConfigPresent(e) == e.auth # "absent" /\ e.tickersFile.exists

\* both artifacts present and the credentials valid
ConfigValid(e) == ConfigPresent(e) /\ e.auth = "valid"

\* lines 102-113 and 188-199: credential parse, then the three mandatory
\* calls; the message of the first failure, or "none"
FirstFailure(e, acctOk, clockOk, posOk) ==
  IF e.auth = "unparsable" THEN "JSONDecodeError"
  ELSE IF e.auth = "nokey" THEN "KeyError: APCA-API-KEY-ID"
  ELSE IF ~acctOk THEN "get_account failed"
  ELSE IF ~clockOk THEN "get_clock failed"
  ELSE IF ~posOk THEN "list_positions failed"
  ELSE "none"

\* the mandatory calls with a failed get_account tried once more
MandatoryCalls_retry(e, acctOk, clockOk, posOk) ==
  <<Call("config", "", ConfigPresent(e))>>
  \o (IF ConfigValid(e) THEN <<Call("getAccount", "", acctOk)>> ELSE <<>>)
  \o (IF ConfigValid(e) /\ ~acctOk THEN <<Call("getAccount", "", acctOk)>> ELSE <<>>)
  \o (IF ConfigValid(e) /\ acctOk THEN <<Call("getClock", "", clockOk)>> ELSE <<>>)
  \o (IF ConfigValid(e) /\ acctOk /\ clockOk THEN <<Call("getPositions", "", posOk)>> ELSE <<>>)

\* the external operations of lines 87-113 / 183-199, in order
MandatoryCalls(e, acctOk, clockOk, posOk) ==
  <<Call("config", "", ConfigPresent(e))>>
  \o (IF ConfigValid(e) THEN <<Call("getAccount", "", acctOk)>> ELSE <<>>)
  \o (IF ConfigValid(e) /\ acctOk THEN <<Call("getClock", "", clockOk)>> ELSE <<>>)
  \o (IF ConfigValid(e) /\ acctOk /\ clockOk THEN <<Call("getPositions", "", posOk)>> ELSE <<>>)

\* a first trade counted as made once the ledger holds a row
first_trade_made_from_ledger(e) == e.ledger.state = "ok" /\ e.ledger.n > 0

\* os.path.exists('FirstTrade.csv') (lines 141, 307)
first_trade_made(e) == e.marker

\* line 155
status_bot_mode(ftm) == IF ftm THEN "1-minute analysis" ELSE "30-minute analysis"

\* lines 308-310
dashboard_bot_mode(ftm, demo_mode) ==
  IF demo_mode
  THEN "DEMO MODE - Live API Not Connected"
  ELSE IF ftm THEN "1-minute analysis" ELSE "30-minute analysis (first trade)"

\* --------------------------------------------------- GET /api/status
\* the try block of get_bot_status_json (lines 86-164)
status_body(e, acctOk, clockOk, posOk, fetchOk) ==
  LET calls == MandatoryCalls(e, acctOk, clockOk, posOk)
      fail == FirstFailure(e, acctOk, clockOk, posOk)
  IN IF ~ConfigPresent(e)
     THEN [Blank EXCEPT !.endpoint = "status", !.page = "json",
             !.keys = {"mode", "status", "market_open", "account", "tickers"},
             !.mode = "DEMO", !.status = "Demo Mode Active",
             !.market_open = TRUE,
             !.account = [cash |-> DemoCash, portfolio_value |-> DemoPortfolioValue],
             !.tickers = StatusDemoTickers, !.calls = calls]
     ELSE IF fail # "none"
     THEN Raise("status", fail, calls)
     ELSE LET tickers == read_tickers(e.tickersFile)
              hist == status_trading_history(e.ledger)
              all == calls
                       \o TickerCalls("REST", tickers, FALSE, fetchOk, StatusTickerCap)
                       \o <<Call("ledger", "", e.ledger.state = "ok")>>
          IN IF hist.raised
             THEN Raise("status", "error reading Orders.csv", all)
             ELSE
             [Blank EXCEPT !.endpoint = "status", !.page = "json",
                !.keys = {"market_open", "account", "bot", "tickers", "trades"},
                !.market_open = LiveClockOpen,
                !.account = LiveAccount,
                !.positions_count = LivePositions,
                !.first_trade_made = first_trade_made(e),
                !.bot_mode = status_bot_mode(first_trade_made(e)),
                !.tickers = status_ticker_prices(tickers, fetchOk),
                !.total_trades = hist.trades_count,
                !.trades = hist.trades,
                !.calls = all]

\* lines 166-177
status_error_payload(r) ==
  [Blank EXCEPT !.endpoint = "status", !.page = "json",
     !.keys = {"error", "status", "account", "tickers"},
     !.error = r.error, !.status = "Error",
     !.account = [cash |-> DemoCash, portfolio_value |-> DemoPortfolioValue],
     !.tickers = StatusErrorTickers, !.calls = r.calls]

get_bot_status_json(e, acctOk, clockOk, posOk, fetchOk) ==
  LET r == status_body(e, acctOk, clockOk, posOk, fetchOk)
  IN IF r.raised THEN status_error_payload(r) ELSE r

\* --------------------------------------------------- GET / (dashboard)
DefaultTickers == <<"AAPL", "TSLA", "AMZN", "MA">>

get_demo_data(calls) ==
  [api |-> "None", account |-> DemoAccount, clock_open |-> TRUE, positions |-> 0,
   tickers |-> DefaultTickers, demo_mode |-> TRUE, calls |-> calls]

\* load_dashboard_data handing the session on after a failed broker call,
\* with the demo account in place of the missing values
load_dashboard_data_keeps_session(e, acctOk, clockOk, posOk) ==
  LET calls == MandatoryCalls(e, acctOk, clockOk, posOk)
      failed == FirstFailure(e, acctOk, clockOk, posOk) # "none"
  IN IF ~ConfigValid(e)
     THEN get_demo_data(calls)
     ELSE [api |-> "REST",
           account |-> IF failed THEN DemoAccount ELSE LiveAccount,
           clock_open |-> IF failed THEN TRUE ELSE LiveClockOpen,
           positions |-> IF failed THEN 0 ELSE LivePositions,
           tickers |-> read_tickers(e.tickersFile),
           demo_mode |-> FALSE, calls |-> calls]

\* load_dashboard_data (lines 179-216)
load_dashboard_data(e, acctOk, clockOk, posOk) ==
  LET calls == MandatoryCalls(e, acctOk, clockOk, posOk)
  IN IF ~ConfigPresent(e)
     THEN get_demo_data(calls)
     ELSE IF FirstFailure(e, acctOk, clockOk, posOk) # "none"
     THEN get_demo_data(calls)
     ELSE [api |-> "REST", account |-> LiveAccount, clock_open |-> LiveClockOpen,
           positions |-> LivePositions, tickers |-> read_tickers(e.tickersFile),
           demo_mode |-> FALSE, calls |-> calls]

\* generate_history_html reads these keys of each of the last five trades
HistoryKeys == {"Time", "Type", "Ticker", "Total"}

history_html_raises(trading_history) ==
  \E i \in 1..Len(Last(trading_history, HistoryShown)) :
     ~(HistoryKeys \subseteq DOMAIN Last(trading_history, HistoryShown)[i])

\* the try block of generate_dashboard_html (lines 295-315)
dashboard_body(e, acctOk, clockOk, posOk, fetchOk) ==
  LET data == load_dashboard_data(e, acctOk, clockOk, posOk)
      ticker_data == get_ticker_data(data.api, data.tickers, data.demo_mode, fetchOk, e.hseed)
      hist == get_dashboard_trading_history(e.ledger)
      trading_history == hist.trades
      ftm == first_trade_made(e)
      bot_mode == dashboard_bot_mode(ftm, data.demo_mode)
      calls == data.calls
                 \o TickerCalls(data.api, data.tickers, data.demo_mode, fetchOk, DashTickerCap)
                 \o <<Call("ledger", "", e.ledger.state = "ok")>>
  IN IF hist.raised
     THEN Raise("dashboard", "error reading Orders.csv", calls)
     ELSE IF history_html_raises(trading_history)
     THEN Raise("dashboard", "KeyError in generate_history_html", calls)
     ELSE [Blank EXCEPT !.endpoint = "dashboard", !.page = "main",
             !.keys = {"demo_mode", "market_open", "account", "bot", "tickers", "trades"},
             !.demo_mode = data.demo_mode,
             !.market_open = data.clock_open,
             !.account = data.account,
             !.positions_count = data.positions,
             !.first_trade_made = ftm,
             !.bot_mode = bot_mode,
             !.tickers = ticker_data,
             !.trades = trading_history,
             !.calls = calls]

\* lines 316-318 with generate_error_html
dashboard_error_page(r) ==
  [Blank EXCEPT !.endpoint = "dashboard", !.page = "error",
     !.keys = {"title", "error"}, !.status = "Dashboard Error",
     !.error = r.error, !.calls = r.calls]

\* generate_dashboard_html without its except clause
generate_dashboard_html_uncaught(e, acctOk, clockOk, posOk, fetchOk) ==
  dashboard_body(e, acctOk, clockOk, posOk, fetchOk)

generate_dashboard_html(e, acctOk, clockOk, posOk, fetchOk) ==
  LET r == dashboard_body(e, acctOk, clockOk, posOk, fetchOk)
  IN IF r.raised THEN dashboard_error_page(r) ELSE r

\* ------------------------------------------------------ the state machine
Env == [auth |-> auth, tickersFile |-> tickersFile, ledger |-> ledger,
        marker |-> marker, hseed |-> hseed]

Ledgers ==
  {[state |-> "missing", header |-> <<>>, n |-> 0],
   [state |-> "malformed", header |-> <<>>, n |-> 0]}
  \cup {[state |-> "ok", header |-> h, n |-> k] : h \in Headers, k \in 0..MaxRows}

TickerFiles ==
  {[exists |-> FALSE, tokens |-> <<>>]}
  \cup {[exists |-> TRUE, tokens |-> t] : t \in BoundedSeq(FileTokens, MaxSyms)}

\* the outcomes of the per-symbol fetches a request with cap symbols makes;
\* no fetch is made unless the three mandatory calls succeeded
FetchOutcomes(e, cap, live) ==
  IF ConfigValid(e) /\ live
  THEN [1..Min(cap, Len(e.tickersFile.tokens)) -> BOOLEAN]
  ELSE {[i \in 1..DashTickerCap |-> TRUE]}

Init ==
  /\ auth \in AuthStates
  /\ tickersFile \in TickerFiles
  /\ ledger \in Ledgers
  /\ (Len(tickersFile.tokens) <= SliceSyms \/ ledger.n <= SliceRows)
  /\ marker \in BOOLEAN
  /\ hseed \in HashSeeds
  /\ out = Blank
  /\ runs = 0

\* do_GET, path /api/status: the handler runs to its return
StatusRequest ==
  /\ out.endpoint = "none"
  /\ \E acctOk \in BOOLEAN, clockOk \in BOOLEAN, posOk \in BOOLEAN :
       \E fetchOk \in FetchOutcomes(Env, StatusTickerCap, acctOk /\ clockOk /\ posOk) :
          out' = get_bot_status_json(Env, acctOk, clockOk, posOk, fetchOk)
  /\ runs' = 1
  /\ UNCHANGED env

\* do_GET, path / or /dashboard
DashboardRequest ==
  /\ out.endpoint = "none"
  /\ \E acctOk \in BOOLEAN, clockOk \in BOOLEAN, posOk \in BOOLEAN :
       \E fetchOk \in FetchOutcomes(Env, DashTickerCap, acctOk /\ clockOk /\ posOk) :
          out' = generate_dashboard_html(Env, acctOk, clockOk, posOk, fetchOk)
  /\ runs' = 1
  /\ UNCHANGED env

\* do_GET writes the response; nothing of the request is kept
Respond ==
  /\ out.endpoint # "none"
  /\ out' = Blank
  /\ runs' = 0
  /\ UNCHANGED env

\* the broker answers every call of the last request as it answered it then
SameAnswers(calls, acctOk, clockOk, posOk, fetchOk) ==
  LET F == SelectSeq(calls, LAMBDA c : c.op = "getLatestTrade")
  IN /\ \A i \in 1..Len(calls) :
          /\ calls[i].op = "getAccount" => calls[i].ok = acctOk
          /\ calls[i].op = "getClock" => calls[i].ok = clockOk
          /\ calls[i].op = "getPositions" => calls[i].ok = posOk
     /\ \A i \in 1..Len(F) : i \in DOMAIN fetchOk /\ fetchOk[i] = F[i].ok

\* do_GET for the same path once more, before anything else changed: the
\* files are as they were and the broker answers as it did
RepeatRequest ==
  /\ runs = 1
  /\ \E acctOk \in BOOLEAN, clockOk \in BOOLEAN, posOk \in BOOLEAN :
       \E fetchOk \in FetchOutcomes(Env, IF out.endpoint = "status" THEN StatusTickerCap
                                         ELSE DashTickerCap,
                                    acctOk /\ clockOk /\ posOk) :
          /\ SameAnswers(out.calls, acctOk, clockOk, posOk, fetchOk)
          /\ out' = IF out.endpoint = "status"
                    THEN get_bot_status_json(Env, acctOk, clockOk, posOk, fetchOk)
                    ELSE generate_dashboard_html(Env, acctOk, clockOk, posOk, fetchOk)
  /\ runs' = 2
  /\ UNCHANGED env

Next == StatusRequest \/ DashboardRequest \/ Respond

Spec == Init /\ [][Next]_vars

\* requests that may be repeated, over the smaller files
InitRepeat ==
  /\ Init
  /\ Len(tickersFile.tokens) <= RepeatSyms
  /\ ledger.n <= RepeatRows

NextRepeat == StatusRequest \/ DashboardRequest \/ RepeatRequest \/ Respond

SpecRepeat == InitRepeat /\ [][NextRepeat]_vars

\* ------------------------------------------------- reading a result
Modes == {"DEMO", "LIVE", "ERROR"}

\* the mode a consumer reads off a result: the 'mode' key or else the shape of
\* the status object; the error page or else the demo_mode flag of the dashboard
ModeOf(o) ==
  IF o.endpoint = "status"
  THEN IF "mode" \in o.keys THEN o.mode
       ELSE IF "error" \in o.keys THEN "ERROR" ELSE "LIVE"
  ELSE IF o.page = "error" THEN "ERROR"
       ELSE IF o.demo_mode THEN "DEMO" ELSE "LIVE"

Done == out.endpoint # "none"

\* one of getAccount, getClock, getPositions was made and failed
MandatoryFailed(o) ==
  \E i \in 1..Len(o.calls) :
     o.calls[i].op \in {"getAccount", "getClock", "getPositions"} /\ ~o.calls[i].ok

\* all three mandatory calls were made and succeeded
LiveSucceeded(o) ==
  \E i \in 1..Len(o.calls) : o.calls[i].op = "getPositions" /\ o.calls[i].ok

\* ---------------------------------------------------------------- claims

\* C1: a request with a missing or malformed config artifact yields mode
\* DEMO, the fixed demo account (cash 25000, portfolio value 25000) and only
\* unresolved ticker quotes, on the status and on the dashboard path.
C1_DemoOnBadConfig ==
  (Done /\ ~ConfigValid(Env)) =>
     /\ ModeOf(out) = "DEMO"
     /\ out.account.cash = DemoCash
     /\ out.account.portfolio_value = DemoPortfolioValue
     /\ \A i \in 1..Len(out.tickers) : ~out.tickers[i].resolved

\* C2: with valid config, a failed mandatory broker call yields mode ERROR,
\* the failure's message, no trades and no tickers.
C2_ErrorOnBrokerFailure ==
  (Done /\ ConfigValid(Env) /\ MandatoryFailed(out)) =>
     /\ ModeOf(out) = "ERROR"
     /\ out.error # "none"
     /\ out.trades = <<>>
     /\ out.tickers = <<>>

\* C3: whatever the config, the broker outcomes, the ledger and the marker,
\* a request returns a result of mode DEMO, LIVE or ERROR; no exception
\* leaves the handler and the page is never blank: an ERROR result names the
\* failure, any other result holds clock, account and tickers.
C3_AlwaysAssembled ==
  Done =>
     /\ ~out.raised
     /\ out.page \in {"json", "main", "error"}
     /\ ModeOf(out) \in Modes
     /\ ModeOf(out) = "ERROR" => ("error" \in out.keys /\ out.error # "none")
     /\ ModeOf(out) # "ERROR" => {"market_open", "account", "tickers"} \subseteq out.keys

\* C3 witness: a populated ledger without the Type column makes the page
\* rendering fail, and the dashboard answers with its error page
C3_Witness ==
  /\ out.endpoint = "dashboard"
  /\ out.page = "error"
  /\ ~out.raised
  /\ ledger.state = "ok" /\ ledger.n > 0 /\ ledger.header = HeaderDrift
  /\ LiveSucceeded(out)

\* the per-symbol fetches a request made, in order
IsFetch(c) == c.op = "getLatestTrade"

FetchCalls(o) == SelectSeq(o.calls, IsFetch)

\* the outcome of the last fetch made for symbol s
LastFetchOk(F, s) ==
  F[CHOOSE i \in 1..Len(F) : F[i].arg = s /\ \A j \in (i + 1)..Len(F) : F[j].arg # s].ok

\* every quote follows the outcome of its own symbol's fetch and of no other:
\* quote i of the dashboard that of fetch i, the status entry of a symbol that
\* of the last fetch made for the symbol
QuotesFollowFetches(o) ==
  LET F == FetchCalls(o)
  IN IF o.endpoint = "dashboard"
     THEN /\ Len(o.tickers) = Len(F)
          /\ \A i \in 1..Len(F) :
               /\ o.tickers[i].symbol = F[i].arg
               /\ o.tickers[i].resolved = F[i].ok
               /\ F[i].ok => o.tickers[i].price = LivePrice(F[i].arg)
               /\ ~F[i].ok => o.tickers[i].price = DictGet(demo_prices, F[i].arg, FallbackPrice)
     ELSE /\ {o.tickers[i].symbol : i \in 1..Len(o.tickers)} = {F[i].arg : i \in 1..Len(F)}
          /\ \A i \in 1..Len(o.tickers) :
               /\ o.tickers[i].resolved = LastFetchOk(F, o.tickers[i].symbol)
               /\ o.tickers[i].resolved => o.tickers[i].price = LivePrice(o.tickers[i].symbol)
               /\ ~o.tickers[i].resolved => o.tickers[i].price = 0

\* the request went the live way and its result holds ticker quotes
LiveWithTickers == Done /\ LiveSucceeded(out) /\ "tickers" \in out.keys

\* C4: in LIVE mode a symbol whose fetch fails gets an unresolved quote with
\* a fallback price, the mode stays LIVE, and every symbol whose fetch
\* succeeded keeps its live price with resolved = true, before and after the
\* failed one.
C4_FailureIsLocal ==
  LiveWithTickers => (ModeOf(out) = "LIVE" /\ QuotesFollowFetches(out))

\* C4 witness: a failed fetch between two successful ones on the dashboard
C4_Witness ==
  /\ LiveWithTickers
  /\ out.endpoint = "dashboard"
  /\ \E i, j, k \in 1..Len(out.tickers) :
       /\ i < j /\ j < k
       /\ out.tickers[i].resolved /\ ~out.tickers[j].resolved /\ out.tickers[k].resolved
       /\ ~FetchCalls(out)[j].ok

\* C5 as stated: one cap K for every resolution, exactly min(K, len) quotes,
\* the i-th for the i-th symbol, repeated symbols included.
C5_OneCapPositional ==
  LiveWithTickers =>
     LET syms == read_tickers(tickersFile)
     IN /\ Len(out.tickers) = Min(DashTickerCap, Len(syms))
        /\ \A i \in 1..Len(out.tickers) : out.tickers[i].symbol = syms[i]

\* the index of the first occurrence of x in s
FirstIndex(s, x) == CHOOSE i \in 1..Len(s) : s[i] = x /\ \A j \in 1..(i - 1) : s[j] # x

\* C5 amended: the dashboard returns exactly min(4, len) quotes, the i-th for
\* the i-th symbol, whatever the fetch outcomes and repeats; the status object
\* holds one quote per distinct symbol among the first min(3, len), in order
\* of first occurrence; an empty list gives no quotes and no error.
C5_QuotesPerEndpoint ==
  (Done /\ "tickers" \in out.keys /\ (out.endpoint = "dashboard" \/ LiveSucceeded(out))) =>
     IF out.endpoint = "dashboard"
     THEN LET syms == IF out.demo_mode THEN DefaultTickers ELSE read_tickers(tickersFile)
          IN /\ Len(out.tickers) = Min(DashTickerCap, Len(syms))
             /\ \A i \in 1..Len(out.tickers) : out.tickers[i].symbol = syms[i]
     ELSE LET prefix == Take(read_tickers(tickersFile), StatusTickerCap)
          IN /\ ModeOf(out) = "LIVE"
             /\ {out.tickers[i].symbol : i \in 1..Len(out.tickers)} = Range(prefix)
             /\ Len(out.tickers) = Cardinality(Range(prefix))
             /\ \A i, j \in 1..Len(out.tickers) :
                  i < j => FirstIndex(prefix, out.tickers[i].symbol)
                             < FirstIndex(prefix, out.tickers[j].symbol)

\* C5 witness: more symbols than the cap, one repeated, one fetch failing
C5_Witness ==
  /\ LiveWithTickers
  /\ out.endpoint = "dashboard"
  /\ Len(tickersFile.tokens) > DashTickerCap
  /\ Len(out.tickers) = DashTickerCap
  /\ out.tickers[1].symbol = out.tickers[2].symbol
  /\ \E i \in 1..Len(out.tickers) : ~out.tickers[i].resolved

\* C6: every output carries a mode tag DEMO, LIVE or ERROR that tells the
\* three outcomes apart: a LIVE tag only on a live result, a DEMO tag only on
\* a missing-config result (never on the fallback after a failed broker call).
C6_ModeTellsOutcome ==
  Done =>
     /\ ModeOf(out) \in Modes
     /\ ModeOf(out) = "LIVE" => LiveSucceeded(out)
     /\ ModeOf(out) = "DEMO" => ~ConfigValid(Env)

\* C7: with the configuration missing the result has mode DEMO, an open
\* market clock, the demo quotes of AAPL, TSLA, AMZN, MA and no trades,
\* whatever the ledger holds.
C7_DemoIgnoresLedger ==
  (Done /\ ~ConfigPresent(Env)) =>
     /\ ModeOf(out) = "DEMO"
     /\ out.market_open
     /\ Len(out.tickers) = Len(DefaultTickers)
     /\ \A i \in 1..Len(out.tickers) :
          /\ out.tickers[i].symbol = DefaultTickers[i]
          /\ out.tickers[i].price = demo_prices[DefaultTickers[i]]
          /\ ~out.tickers[i].resolved
     /\ out.trades = <<>>

\* the request read the ledger and its result holds the trades
CarriesTrades == Done /\ "trades" \in out.keys /\ ~out.raised

\* the rows a request keeps at most
TailOf(endpoint) == IF endpoint = "status" THEN StatusTail ELSE DashTail

\* C8: a missing ledger file gives no trades, a malformed one gives no trades
\* with the failure swallowed; a LIVE request still assembles with mode LIVE
\* and its account, clock, positions, marker flag and quotes as fetched.
C8_LedgerFailureIsLocal ==
  (Done /\ LiveSucceeded(out) /\ ledger.state \in {"missing", "malformed"}) =>
     /\ ~out.raised
     /\ ModeOf(out) = "LIVE"
     /\ "trades" \in out.keys
     /\ out.trades = <<>>
     /\ out.total_trades = 0
     /\ out.account = LiveAccount
     /\ out.market_open = LiveClockOpen
     /\ out.positions_count = LivePositions
     /\ out.first_trade_made = marker
     /\ QuotesFollowFetches(out)

\* C8 witness: a malformed ledger under a live dashboard with a resolved quote
C8_Witness ==
  /\ Done /\ LiveSucceeded(out)
  /\ ledger.state = "malformed"
  /\ out.endpoint = "dashboard"
  /\ out.page = "main"
  /\ \E i \in 1..Len(out.tickers) : out.tickers[i].resolved

\* C9: of a readable ledger of n rows the result holds exactly the last
\* min(n, maxCount) rows, oldest first, with maxCount at most 10 (5 for the
\* status object, 10 for the dashboard).
C9_LastRowsInOrder ==
  (CarriesTrades /\ ledger.state = "ok") =>
     LET k == Min(ledger.n, TailOf(out.endpoint))
     IN /\ TailOf(out.endpoint) <= 10
        /\ Len(out.trades) = k
        /\ \A i \in 1..k : out.trades[i]["Time"] = Cell("Time", ledger.n - k + i)

\* C9 witness: a ledger of more than ten rows on the dashboard
C9_Witness ==
  /\ CarriesTrades
  /\ out.endpoint = "dashboard"
  /\ ledger.state = "ok" /\ ledger.n > DashTail
  /\ Len(out.trades) = DashTail
  /\ out.trades[1]["Time"] = Cell("Time", ledger.n - DashTail + 1)

\* C10: with a leading unlabeled index field in the ledger's header, no
\* returned trade has that field and every other field of the row is returned
\* unchanged; without it the trades have all the fields of the header.
C10_IndexFieldDropped ==
  (CarriesTrades /\ ledger.state = "ok") =>
     LET k == Len(out.trades)
         fields == {ledger.header[i] : i \in 1..Len(ledger.header)} \ {""}
     IN \A i \in 1..k :
          /\ UNNAMED_COLUMN \notin DOMAIN out.trades[i]
          /\ DOMAIN out.trades[i] = fields
          /\ \A c \in fields : out.trades[i][c] = Cell(c, ledger.n - k + i)

\* C10 witness: a ledger with the index field whose rows reach the result
C10_Witness ==
  /\ CarriesTrades
  /\ ledger.state = "ok" /\ ledger.header = HeaderIndexed /\ ledger.n > 1
  /\ Len(out.trades) > 1
  /\ DOMAIN out.trades[1] = {"Time", "Type", "Ticker", "Total"}

\* the phase a result's bot mode names
BotPhase(o) ==
  CASE o.bot_mode = "1-minute analysis" -> "SteadyAnalysis"
    [] o.bot_mode \in {"30-minute analysis", "30-minute analysis (first trade)"} -> "FirstAnalysis"
    [] o.bot_mode = "DEMO MODE - Live API Not Connected" -> "Demo"
    [] OTHER -> "none"

\* C11: in a LIVE result the phase is FirstAnalysis exactly when the marker
\* is absent and SteadyAnalysis exactly when it is present, whatever the
\* ledger is; the phase is Demo only in a result that is not LIVE.
C11_PhaseFollowsMarker ==
  Done =>
     /\ ModeOf(out) = "LIVE" =>
          /\ out.first_trade_made = marker
          /\ BotPhase(out) = (IF marker THEN "SteadyAnalysis" ELSE "FirstAnalysis")
     /\ BotPhase(out) = "Demo" => ModeOf(out) # "LIVE"

\* C11 witness: a LIVE result in the steady phase over an empty ledger
C11_Witness ==
  /\ Done /\ ModeOf(out) = "LIVE"
  /\ marker /\ ledger.state = "ok" /\ ledger.n = 0
  /\ BotPhase(out) = "SteadyAnalysis"

\* the parts of a result two aggregations are compared on
StateOf(o) ==
  [mode |-> ModeOf(o), clock |-> o.market_open, account |-> o.account,
   tickers |-> o.tickers, trades |-> o.trades, botPhase |-> BotPhase(o)]

DemoRuleQuote(sym) == TickerQuoteOf("None", sym, TRUE, FALSE, hseed)

\* C13: after a failed live fetch of a symbol, the symbol's quote carries the
\* price the demo-price rule gives it: the demo-table price for a table
\* symbol, else the synthetic price derived from the symbol.
C13_FallbackIsDemoPrice ==
  LiveWithTickers =>
     \A i \in 1..Len(out.tickers) :
        ~out.tickers[i].resolved =>
           out.tickers[i].price = DemoRuleQuote(out.tickers[i].symbol).price

\* the place of an external operation in the order of a request
OpRank(op) ==
  CASE op = "config" -> 1
    [] op = "getAccount" -> 2
    [] op = "getClock" -> 3
    [] op = "getPositions" -> 4
    [] op = "getLatestTrade" -> 5
    [] op = "ledger" -> 6

\* the operations of a request that were made, by name
OpsMade(o) == {o.calls[i].op : i \in 1..Len(o.calls)}

\* C14: the external operations of one request occur in a fixed order and
\* without retry: the configuration check first, then getAccount, getClock,
\* getPositions, then at most K price fetches in symbol order, then one ledger
\* read; each of them but the fetches at most once, each fetch for the next
\* symbol of the list, and the request ends assembled in that one pass.
C14_FixedOrderOnePass ==
  Done =>
     LET c == out.calls
         F == FetchCalls(out)
         syms == read_tickers(tickersFile)
     IN /\ Len(c) >= 1 /\ c[1].op = "config"
        /\ \A i, j \in 1..Len(c) :
              i < j => /\ OpRank(c[i].op) <= OpRank(c[j].op)
                       /\ c[i].op = c[j].op => IsFetch(c[i])
        /\ "getClock" \in OpsMade(out) => "getAccount" \in OpsMade(out)
        /\ "getPositions" \in OpsMade(out) => "getClock" \in OpsMade(out)
        /\ "getLatestTrade" \in OpsMade(out) => "getPositions" \in OpsMade(out)
        /\ Len(F) <= Min(DashTickerCap, Len(syms))
        /\ out.endpoint = "status" => Len(F) <= StatusTickerCap
        /\ \A i \in 1..Len(F) : F[i].arg = syms[i]
        /\ ~out.raised /\ ModeOf(out) \in Modes

\* C14 witness: a live dashboard request that made every operation, four
\* fetches among them, one of which failed
C14_Witness ==
  /\ Done /\ out.endpoint = "dashboard"
  /\ OpsMade(out) = {"config", "getAccount", "getClock", "getPositions", "getLatestTrade", "ledger"}
  /\ Len(FetchCalls(out)) = DashTickerCap
  /\ \E i \in 1..DashTickerCap : ~FetchCalls(out)[i].ok
  /\ Len(out.calls) = 5 + DashTickerCap

BrokerOps == {"getAccount", "getClock", "getPositions", "getLatestTrade"}

\* C15: a request that does not get through the three mandatory calls makes
\* no further broker call: none at all without usable configuration, none
\* after the failed one of getAccount, getClock, getPositions, and no price
\* fetch; the quotes of its result, if any, are those of the demo rule.
C15_NoCallsAfterFailure ==
  Done =>
     LET c == out.calls
     IN /\ ~ConfigValid(Env) => OpsMade(out) \cap BrokerOps = {}
        /\ \A i \in 1..Len(c) :
              (c[i].op \in BrokerOps \ {"getLatestTrade"} /\ ~c[i].ok)
                 => \A j \in (i + 1)..Len(c) : c[j].op \notin BrokerOps
        /\ ~LiveSucceeded(out) =>
              /\ FetchCalls(out) = <<>>
              /\ \A i \in 1..Len(out.tickers) :
                    /\ ~out.tickers[i].resolved
                    /\ out.tickers[i].price = DemoRuleQuote(out.tickers[i].symbol).price

\* C15 witness: a dashboard request whose getClock failed, over a ticker file
\* with symbols: two broker calls, no fetch, and the four demo quotes
C15_Witness ==
  /\ Done /\ out.endpoint = "dashboard"
  /\ tickersFile.tokens # <<>>
  /\ \E i \in 1..Len(out.calls) : out.calls[i].op = "getClock" /\ ~out.calls[i].ok
  /\ "getPositions" \notin OpsMade(out)
  /\ Len(out.tickers) = DashTickerCap

====
